---- MODULE Spec2Model ----
(***************************************************************************)
(* A model of qassure.framework: the Severity enumeration, the AuditReport *)
(* list, the Auditor run protocol (run_audit / get_report / passed /       *)
(* add_report_item / claim) and the ClaimInspector / NoOpInspector claim   *)
(* vocabulary.  One action per method.  The body of the abstract audit()   *)
(* hook is caller code: while pc = "audit" it is any sequence of claim()   *)
(* calls and inspector method calls, ended by a normal return or by an     *)
(* exception leaving one of the calls.                                     *)
(*                                                                         *)
(* Spec        an auditor that is run: run_audit / get_report / passed /   *)
(*             add_report_item, claims made in audit()                     *)
(* SpecAdd     add_report_item() and passed() on an auditor never run      *)
(* SpecReport  the AuditReport object: append, len, index, iteration       *)
(* SpecNames   claim() called by a routine of the caller, display names    *)
(* SpecParse   the first-argument extractor on source lines                *)
(* SpecDirect  inspectors called directly, with messages                   *)
(* SpecOps     Spec together with the reads of the AuditReport             *)
(* SpecValues  is_truthy / is_none / is_not_none / contains on every value *)
(***************************************************************************)
EXTENDS Integers, Sequences, FiniteSets, TLC

\* ------------------------------------------------------------------ bounds
MaxReport == 2      \* records the report may hold before appends are cut off

\* ---------------------------------------------------------------- Severity
BLOCKER == 50
CRITICAL == 40
ERROR == 30
WARNING == 20
INFO == 10
Severity == {BLOCKER, CRITICAL, ERROR, WARNING, INFO}

\* -------------------------------------------------------------- exceptions
NoExc == "none"
BlockingDeficiencyError == "BlockingDeficiencyError"
ValueError == "ValueError"
TypeError == "TypeError"
Exception == "Exception"
IndexError == "IndexError"

\* issubclass(raised, kind) for the exception classes in play: the three
\* concrete classes all derive directly from Exception.
IsSubclass(raised, kind) == kind = Exception \/ raised = kind

\* ------------------------------------------------------------------ values
\* The values put under audit, named by their Python literal.
VNone == "None"
VZero == "0"
VFive == "5"
VStr == "'five'"
VDict == "{'one': 1}"
VInt == "int"
Values == {VNone, VZero, VFive, VStr, VDict, VInt}

\* More of the values the tests make claims about: the falsy ones that are not
\* None, and the containers.
VEmptyStr == "''"
VFalse == "False"
VEmptyDict == "{}"
VList == "['one']"
VNums == "[1, 1, 1, 1, 2]"
VEmptyList == "[]"
Mappings == {VDict, VEmptyDict}
Lists == {VList, VNums, VEmptyList}

\* The (key, value) items of a mapping.
Items(v) == IF v = VDict THEN {<<"'one'", "1">>} ELSE {}

\* The elements of a list, in order.
Elements(v) ==
    IF v = VList THEN <<"'one'">>
    ELSE IF v = VNums THEN <<"1", "1", "1", "1", "2">>
    ELSE <<>>

Types == {"int", "str"}
NoArg == "-"

\* A str is the sequence of its pieces: each of ( ) , " ' is a piece of its own
\* and the text between two of them is one piece; "" is <<>>.  An argument that
\* is None or a str is PyNone or Str(text).
PyNone == <<"None">>
Str(text) == <<"str", text>>

\* `not x` for such an argument: None and "" are both falsy.
Falsy(x) == x = PyNone \/ x = Str(<<>>)

\* `x or default`
Or(x, default) == IF Falsy(x) THEN default ELSE x[2]

\* bool(value)
Truthy(v) == v \in {VFive, VStr, VDict, VInt, VList, VNums}

\* isinstance(value, cls)
IsInstance(v, cls) ==
    \/ cls = "int" /\ v \in {VZero, VFive, VFalse}
    \/ cls = "str" /\ v \in {VStr, VEmptyStr}

\* callable(value)
Callable(v) == v = VInt

\* value == other (False == 0)
Equal(v, x) == v = x \/ {v, x} = {VFalse, VZero}

\* `x in value` that looks a mapping's values through, not its keys.
MemberOfValues(v, x) ==
    IF v \in Mappings THEN (IF \E it \in Items(v) : Equal(it[2], x) THEN "True" ELSE "False")
    ELSE IF v \in Lists
         THEN (IF \E i \in 1..Len(Elements(v)) : Equal(Elements(v)[i], x) THEN "True" ELSE "False")
    ELSE IF v \in {VStr, VEmptyStr} THEN (IF x = "'one'" THEN "False" ELSE TypeError)
    ELSE TypeError

\* `x in value`: TRUE, FALSE, or the TypeError Python raises when the value
\* does not support the membership test with that operand.  A dict looks the
\* operand up among its keys, a list compares it with its elements, a str
\* searches for it as a substring and takes no operand but a str.
Member(v, x) ==
    IF v \in Mappings THEN (IF \E it \in Items(v) : Equal(it[1], x) THEN "True" ELSE "False")
    ELSE IF v \in Lists
         THEN (IF \E i \in 1..Len(Elements(v)) : Equal(Elements(v)[i], x) THEN "True" ELSE "False")
    ELSE IF v \in {VStr, VEmptyStr} THEN (IF x = "'one'" THEN "False" ELSE TypeError)
    ELSE TypeError

\* value(*args): "returns", or the exception the call raises.
CallResult(v, a) ==
    IF v = VInt
    THEN (IF a = "'1'" THEN "returns"
          ELSE IF a = "'one'" THEN ValueError
          ELSE TypeError)
    ELSE TypeError

\* ------------------------------------------------------------- call stack
\* traceback.extract_stack(), reversed: FrameSummary records, innermost first.
Frame(name, line) == [filename |-> "audit.py", lineno |-> 1, name |-> name, line |-> line]
\* `last_frame = None`: the frame that is no frame.
NoFrame == [filename |-> "", lineno |-> 0, name |-> "None", line |-> <<>>]

\* Names for which hasattr(ClaimInspector, name) is true.
ClaimInspectorAttrs ==
    {"_report_deficiency", "is_truthy", "is_none", "is_not_none", "is_type", "is_callable",
     "is_equal_to", "if_not_none", "if_is_type", "contains", "raises",
     "agent", "error_level", "value", "object_name"}

\* frame.name.startswith("__")
IsDunder(name) == name \in {"__init__", "__call__", "__getattr__"}

\* The frames below an inspector method: inside audit() the caller is the
\* subclass's audit(), itself called by run_audit(); otherwise it is the
\* routine that uses the inspector directly.
CallerStack(where) ==
    IF where = "audit"
    THEN <<Frame("audit", <<"self.claim", "(", "self.value", ")", ".check", "(", ")">>),
           Frame("run_audit", <<"self.audit", "(", ")">>),
           Frame("main", <<"auditor.run_audit", "(", ")">>)>>
    ELSE <<Frame("main", <<"agent.claim", "(", "value", ")", ".check", "(", ")">>)>>

\* ------------------------------------------------------------- AuditReport
\* AuditReport.__init__
EmptyReport == <<>>

\* append that puts the new record in front.
append_front(report_items, severity, message, source) ==
    <<[severity |-> severity, message |-> message, source |-> source]>> \o report_items

\* AuditReport.append: the tuple (severity, message, source), its three places
\* named.
append(report_items, severity, message, source) ==
    Append(report_items, [severity |-> severity, message |-> message, source |-> source])

\* AuditReport.__len__
__len__(report_items) == Len(report_items)

\* list indexing by an integer: 0-based, negative indexes count from the end,
\* anything else is an IndexError.
InRange(report_items, k) == k < Len(report_items) /\ k >= -Len(report_items)

\* AuditReport.__getitem__, for an index in range
__getitem__(report_items, k) ==
    IF k >= 0 THEN report_items[k + 1] ELSE report_items[Len(report_items) + k + 1]

\* AuditReport.__iter__: the items a loop over the report sees, in order.
RECURSIVE IterFrom(_, _)
IterFrom(report_items, i) ==
    IF i >= __len__(report_items) THEN <<>>
    ELSE <<__getitem__(report_items, i)>> \o IterFrom(report_items, i + 1)

__iter__(report_items) == IterFrom(report_items, 0)

\* ----------------------------------------------------------------- Auditor
\* add_report_item without the `if last_frame` test: the source is formatted
\* from whatever it is given.
add_report_item_unconditional(rep, severity, message, last_frame) ==
    append(rep, severity, message,
           <<"File", last_frame.filename, "line", last_frame.lineno,
             "in", last_frame.name, last_frame.line>>)

\* Auditor.add_report_item: the report after the call.
add_report_item(rep, severity, message, last_frame) ==
    LET source == IF last_frame # NoFrame
                  THEN <<"File", last_frame.filename, "line", last_frame.lineno,
                         "in", last_frame.name, last_frame.line>>
                  ELSE <<"Unknown">>
    IN  append(rep, severity, message, source)

\* Auditor.passed: the loop over the report, record by record.
RECURSIVE PassedFrom(_, _, _)
PassedFrom(rep, i, max_level) ==
    IF i > Len(rep) THEN TRUE
    ELSE IF rep[i].severity > max_level THEN FALSE
    ELSE PassedFrom(rep, i + 1, max_level)

\* passed with `>=` for `>`: a record at max_level fails.
RECURSIVE PassedFromInclusive(_, _, _)
PassedFromInclusive(rep, i, max_level) ==
    IF i > Len(rep) THEN TRUE
    ELSE IF rep[i].severity >= max_level THEN FALSE
    ELSE PassedFromInclusive(rep, i + 1, max_level)

passed_inclusive(rep, max_level) == PassedFromInclusive(rep, 1, max_level)

\* passed that fails a report with a BLOCKER record at every level.
passed_failing_blockers(rep, max_level) ==
    /\ PassedFrom(rep, 1, max_level)
    /\ ~\E i \in 1..Len(rep) : rep[i].severity = BLOCKER

passed(rep, max_level) == PassedFrom(rep, 1, max_level)

\* ---------------------------------------------------------- ClaimInspector
ProvidedValue == <<"[provided value]">>

\* ClaimInspector.__init__
ClaimInspector(error_level, value, object_name) ==
    [kind |-> "claim", error_level |-> error_level, value |-> value,
     object_name |-> Or(object_name, ProvidedValue)]

\* Names for which hasattr(Auditor, name) is true.
AuditorAttrs ==
    {"__init__", "get_report", "passed", "add_report_item", "claim",
     "_parse_frame_line_for_arg", "run_audit", "audit"}

\* line.find(c): the place of the first piece c, 0 when there is none.
RECURSIVE Find(_, _, _)
Find(line, c, i) ==
    IF i > Len(line) THEN 0
    ELSE IF line[i] = c THEN i
    ELSE Find(line, c, i + 1)

\* The loop of Auditor._parse_frame_line_for_arg from piece i on: `stack` holds
\* the closers awaited, `buffer` the text read so far.  (`escaped` is never
\* set, so a backslash is text like any other.)
RECURSIVE ParseFrom(_, _, _, _)
ParseFrom(line, i, stack, buffer) ==
    IF i > Len(line) THEN Str(buffer)
    ELSE LET char == line[i]
             stack2 == IF char = stack[Len(stack)] THEN SubSeq(stack, 1, Len(stack) - 1)
                       ELSE IF char = "\"" THEN Append(stack, char)
                       ELSE IF char = "(" THEN Append(stack, ")")
                       ELSE stack
         IN  IF stack2 = <<>> THEN Str(buffer)
             ELSE IF char = "," /\ Len(stack2) = 1 THEN Str(buffer)
             ELSE ParseFrom(line, i + 1, stack2, Append(buffer, char))

\* Auditor._parse_frame_line_for_arg
_parse_frame_line_for_arg(line) ==
    IF Find(line, "(", 1) = 0 THEN PyNone
    ELSE ParseFrom(line, Find(line, "(", 1) + 1, <<")">>, <<>>)

\* The scan of Auditor.claim over the reversed stack: the name taken from the
\* first frame whose routine is not an attribute of Auditor.
RECURSIVE InferName(_, _)
InferName(stack, i) ==
    IF i > Len(stack) THEN ProvidedValue
    ELSE IF stack[i].name \in AuditorAttrs THEN InferName(stack, i + 1)
    ELSE LET test_object_name == _parse_frame_line_for_arg(stack[i].line)
         IN  IF ~Falsy(test_object_name)
             THEN <<"[">> \o test_object_name[2] \o <<"]">>
             ELSE ProvidedValue

\* Auditor.claim, called with the caller stack `below`: the inspector returned.
claim(value, severity, object_name, below) ==
    LET stack == <<Frame("claim", <<"stack = traceback.extract_stack", "(", ")">>)>> \o below
    IN  ClaimInspector(severity, value,
                       IF object_name = PyNone THEN Str(InferName(stack, 1)) ELSE object_name)

\* What a method call did: the report afterwards, the exception that left the
\* call (NoExc when it returned) and the inspector it returned.
Outcome(rep, raised, ret) == [report |-> rep, raised |-> raised, ret |-> ret]

\* The scan of _report_deficiency over the reversed stack: the first frame that
\* is neither a ClaimInspector attribute nor a dunder, None when there is none.
RECURSIVE LastFrameFrom(_, _)
LastFrameFrom(stack, i) ==
    IF i > Len(stack) THEN NoFrame
    ELSE IF stack[i].name \in ClaimInspectorAttrs \/ IsDunder(stack[i].name)
         THEN LastFrameFrom(stack, i + 1)
    ELSE stack[i]

\* _report_deficiency that raises the fatal signal before it reports: at
\* BLOCKER nothing is appended.
_report_deficiency_raise_first(self, rep, msg, method, below) ==
    IF self.error_level = BLOCKER
    THEN Outcome(rep, BlockingDeficiencyError, "self")
    ELSE Outcome(add_report_item(rep, self.error_level, msg, NoFrame), NoExc, "self")

\* ClaimInspector._report_deficiency, called from `method` with the caller
\* stack `below`: append through the agent, then raise when BLOCKER.
_report_deficiency(self, rep, msg, method, below) ==
    LET stack == <<Frame("_report_deficiency",
                         <<"stack = traceback.extract_stack", "(", ")">>),
                   Frame(method, <<"self._report_deficiency", "(", "msg", ")">>)>> \o below
        last_frame == LastFrameFrom(stack, 1)
        rep2 == add_report_item(rep, self.error_level, msg, last_frame)
    IN  IF self.error_level = BLOCKER
        THEN Outcome(rep2, BlockingDeficiencyError, "self")
        ELSE Outcome(rep2, NoExc, "self")

\* The default message of a method, "<display name> <what is wrong>".  Only the
\* display name it formats is kept; the wording, fixed per method, is not.
DefaultMsg(method, self) == <<"default", self.object_name>>

\* is_truthy with the test inverted: it reports the truthy values.
is_truthy_inverted(self, rep, below, msg) ==
    IF Truthy(self.value)
    THEN _report_deficiency(self, rep, Or(msg, DefaultMsg("is_truthy", self)), "is_truthy", below)
    ELSE Outcome(rep, NoExc, "self")

is_truthy(self, rep, below, msg) ==
    IF ~Truthy(self.value)
    THEN _report_deficiency(self, rep, Or(msg, DefaultMsg("is_truthy", self)), "is_truthy", below)
    ELSE Outcome(rep, NoExc, "self")

\* is_none that tests truthiness: every falsy value counts as None.
is_none_by_truthiness(self, rep, below, msg) ==
    IF Truthy(self.value)
    THEN _report_deficiency(self, rep, Or(msg, DefaultMsg("is_none", self)), "is_none", below)
    ELSE Outcome(rep, NoExc, "self")

is_none(self, rep, below, msg) ==
    IF self.value # VNone
    THEN _report_deficiency(self, rep, Or(msg, DefaultMsg("is_none", self)), "is_none", below)
    ELSE Outcome(rep, NoExc, "self")

is_not_none(self, rep, below, msg) ==
    IF self.value = VNone
    THEN _report_deficiency(self, rep, Or(msg, DefaultMsg("is_not_none", self)), "is_not_none", below)
    ELSE Outcome(rep, NoExc, "self")

is_type(self, rep, below, cls, msg) ==
    IF ~IsInstance(self.value, cls)
    THEN _report_deficiency(self, rep, Or(msg, DefaultMsg("is_type", self)), "is_type", below)
    ELSE Outcome(rep, NoExc, "self")

is_callable(self, rep, below, msg) ==
    IF ~Callable(self.value)
    THEN _report_deficiency(self, rep, Or(msg, DefaultMsg("is_callable", self)), "is_callable", below)
    ELSE Outcome(rep, NoExc, "self")

is_equal_to(self, rep, below, value, msg) ==
    IF ~Equal(self.value, value)
    THEN _report_deficiency(self, rep, Or(msg, DefaultMsg("is_equal_to", self)), "is_equal_to", below)
    ELSE Outcome(rep, NoExc, "self")

\* if_not_none with the test inverted: it goes on when the value is None.
if_not_none_inverted(self, rep) ==
    IF self.value # VNone THEN Outcome(rep, NoExc, "noop") ELSE Outcome(rep, NoExc, "self")

if_not_none(self, rep) ==
    IF self.value = VNone THEN Outcome(rep, NoExc, "noop") ELSE Outcome(rep, NoExc, "self")

if_is_type(self, rep, cls) ==
    IF ~IsInstance(self.value, cls) THEN Outcome(rep, NoExc, "noop")
    ELSE Outcome(rep, NoExc, "self")

\* contains with the usage error turned into a deficiency: a value without
\* membership test is reported like a value that lacks the member.
contains_recording(self, rep, below, value, msg) ==
    IF Member(self.value, value) # "True"
    THEN _report_deficiency(self, rep, Or(msg, DefaultMsg("contains", self)), "contains", below)
    ELSE Outcome(rep, NoExc, "self")

\* `value not in self.value` raises before anything is reported when the
\* bound value does not support the test.
contains(self, rep, below, value, msg) ==
    LET m == Member(self.value, value)
    IN  IF m = TypeError THEN Outcome(rep, TypeError, "self")
        ELSE IF m = "False"
             THEN _report_deficiency(self, rep, Or(msg, DefaultMsg("contains", self)), "contains", below)
        ELSE Outcome(rep, NoExc, "self")

\* ClaimInspector.raises: the call and _report_deficiency both sit inside the
\* try block, so `except exception_type` sees whatever either of them raises.
raises(self, rep, below, exception_type, args, msg) ==
    LET call == CallResult(self.value, args)
        tried == IF call = "returns"
                 THEN _report_deficiency(self, rep, Or(msg, DefaultMsg("raises", self)), "raises", below)
                 ELSE Outcome(rep, call, "self")
    IN  IF tried.raised # NoExc /\ IsSubclass(tried.raised, exception_type)
        THEN Outcome(tried.report, NoExc, "self")
        ELSE tried

\* The documented pass condition of each predicate, as a verdict on the bound
\* value: TRUE when the claim made by `method(arg)` about `v` is false.  An
\* operation that is no predicate (if_*), or whose test cannot be carried out
\* on the value (contains on a non-container), has no verdict.
Violates(method, arg, v) ==
    CASE method = "is_truthy" -> ~Truthy(v)
      [] method = "is_none" -> v # VNone
      [] method = "is_not_none" -> v = VNone
      [] method = "is_type" -> ~IsInstance(v, arg)
      [] method = "is_callable" -> ~Callable(v)
      [] method = "is_equal_to" -> ~Equal(v, arg)
      [] method = "contains" -> Member(v, arg) = "False"
      [] method = "raises" ->
            \/ CallResult(v, arg[2]) = "returns"
            \/ ~IsSubclass(CallResult(v, arg[2]), arg[1])
      [] OTHER -> FALSE

\* ------------------------------------------------------------------- state
VARIABLES
    report,       \* Auditor.report.report_items
    qa_run_flag,  \* Auditor.qa_run_flag
    is_blocked,   \* Auditor.is_blocked
    pc,           \* "idle", or "audit" while run_audit() is inside audit()
    insp,         \* the inspector the current claim chain holds
    last,         \* history: the last call, its arguments and what it did
    run,          \* history: the current (or last) execution of audit()
    auditCalls,   \* history: how many times audit() has been entered (2: twice or more)
    given         \* history: the triples a user of the AuditReport itself appended

vars == <<report, qa_run_flag, is_blocked, pc, insp, last, run, auditCalls, given>>

NoInspector == [kind |-> "none", error_level |-> 0, value |-> VNone, object_name |-> <<>>]

\* NoOpInspector(): it has no fields of its own; error_level and value keep,
\* as history, the ClaimInspector whose if_*() returned it.
NoOpInspector(from) == [from EXCEPT !.kind = "noop"]

\* The record of a call: what was called, on which inspector and with which
\* argument and message, the report and is_blocked it found, the exception
\* that left it and the value it returned.
Call(op, arg, self, raised, result) ==
    [op |-> op, arg |-> arg, msg |-> PyNone, self |-> self, pre |-> report,
     blocked |-> is_blocked, raised |-> raised, result |-> result]

\* The record of an execution of audit(): how it ended ("completed": audit()
\* returned; "blocked": run_audit() caught the fatal signal; "error": another
\* exception `exc`, raised in method `by`, went on to the caller), the report
\* length at its start and end, is_blocked at its start, the severities of
\* the predicates evaluated on a ClaimInspector whose claim was false, in
\* order, and whether a method was called after a BLOCKER one of them.
NoRun == [status |-> "none", start |-> 0, stop |-> 0, blocked |-> FALSE, violated |-> <<>>,
          afterBlock |-> FALSE, exc |-> NoExc, by |-> NoArg]

\* Auditor.__init__
Init ==
    /\ report = EmptyReport
    /\ qa_run_flag = FALSE
    /\ is_blocked = FALSE
    /\ pc = "idle"
    /\ insp = NoInspector
    /\ last = [op |-> "__init__", arg |-> NoArg, msg |-> PyNone, self |-> NoInspector,
               pre |-> EmptyReport,
               blocked |-> FALSE, raised |-> NoExc, result |-> TRUE]
    /\ run = NoRun
    /\ auditCalls = 0
    /\ given = <<>>

\* The frames below the method being called.
Below == CallerStack(pc)

\* ------------------------------------------------------------ Auditor steps
\* run_audit that starts every execution of audit() on a fresh report.
run_audit_resetting(entry) ==
    /\ pc = "idle"
    /\ last' = Call(entry, NoArg, NoInspector, NoExc, TRUE)
    /\ IF ~qa_run_flag
       THEN /\ pc' = "audit"
            /\ auditCalls' = IF auditCalls < 2 THEN auditCalls + 1 ELSE auditCalls
            /\ run' = [NoRun EXCEPT !.status = "running", !.blocked = is_blocked]
            /\ report' = EmptyReport
       ELSE UNCHANGED <<pc, auditCalls, run, report>>
    /\ UNCHANGED <<qa_run_flag, is_blocked, insp, given>>

\* Auditor.run_audit up to the call of audit(); what follows the call (the
\* except clause) is taken by the step that ends audit().
run_audit(entry) ==
    /\ pc = "idle"
    /\ last' = Call(entry, NoArg, NoInspector, NoExc, TRUE)
    /\ IF ~qa_run_flag
       THEN /\ pc' = "audit"
            /\ auditCalls' = IF auditCalls < 2 THEN auditCalls + 1 ELSE auditCalls
            /\ run' = [NoRun EXCEPT !.status = "running", !.start = Len(report),
                                    !.stop = Len(report), !.blocked = is_blocked]
       ELSE UNCHANGED <<pc, auditCalls, run>>
    /\ UNCHANGED <<report, qa_run_flag, is_blocked, insp, given>>

RunAudit == run_audit("run_audit")

\* Auditor.get_report: run_audit(), then return self.report
GetReport == run_audit("get_report")

\* audit() returns: run_audit() falls out of its try block and returns.  The
\* inspectors of audit() are gone with it.
AuditReturn ==
    /\ pc = "audit"
    /\ pc' = "idle"
    /\ run' = [run EXCEPT !.status = "completed"]
    /\ last' = Call("return", NoArg, NoInspector, NoExc, TRUE)
    /\ insp' = NoInspector
    /\ UNCHANGED <<report, qa_run_flag, is_blocked, auditCalls, given>>

\* Auditor.passed
Passed(max_level) ==
    /\ pc = "idle"
    /\ last' = Call("passed", max_level, NoInspector, NoExc, passed(report, max_level))
    /\ UNCHANGED <<report, qa_run_flag, is_blocked, pc, insp, run, auditCalls, given>>

\* Auditor.add_report_item, called directly
AddReportItem(severity, message, last_frame) ==
    /\ pc = "idle"
    /\ Len(report) < MaxReport
    /\ report' = add_report_item(report, severity, message, last_frame)
    /\ last' = Call("add_report_item", <<severity, message, last_frame>>, NoInspector, NoExc, TRUE)
    /\ UNCHANGED <<qa_run_flag, is_blocked, pc, insp, run, auditCalls, given>>

\* self.claim(value, severity) as audit() calls it: the frames below claim are
\* the same at every such call, so the inspectors are tabulated once.
ClaimInAudit ==
    [value \in Values, severity \in Severity |->
        claim(value, severity, PyNone, CallerStack("audit"))]

\* Auditor.claim, called in audit()
Claim(value, severity) ==
    /\ pc = "audit"
    /\ insp' = ClaimInAudit[value, severity]
    /\ last' = Call("claim", NoArg, NoInspector, NoExc, TRUE)
    /\ UNCHANGED <<report, qa_run_flag, is_blocked, pc, run, auditCalls, given>>

\* ---------------------------------------------------------- inspector steps
\* A method of the ClaimInspector is called in audit() and ends with `out`.
\* An exception that leaves the method leaves audit() too and reaches the
\* except clause of run_audit(): BlockingDeficiencyError sets is_blocked and
\* run_audit() returns, anything else goes on to the caller of run_audit().
Invoke(method, arg, out) ==
    /\ pc = "audit"
    /\ insp.kind = "claim"
    /\ Len(out.report) <= MaxReport
    /\ report' = out.report
    /\ last' = Call(method, arg, insp, out.raised, TRUE)
    /\ run' = [run EXCEPT
           !.violated = IF Violates(method, arg, insp.value)
                        THEN Append(@, insp.error_level) ELSE @,
           !.afterBlock = @ \/ (\E i \in 1..Len(run.violated) : run.violated[i] = BLOCKER),
           !.status = IF out.raised = NoExc THEN @
                      ELSE IF out.raised = BlockingDeficiencyError THEN "blocked"
                      ELSE "error",
           !.stop = Len(out.report),
           !.exc = IF out.raised = BlockingDeficiencyError THEN NoExc ELSE out.raised,
           !.by = IF out.raised \in {NoExc, BlockingDeficiencyError} THEN NoArg ELSE method]
    /\ IF out.raised = NoExc
       THEN /\ pc' = "audit"
            /\ insp' = IF out.ret = "noop" THEN NoOpInspector(insp) ELSE insp
            /\ UNCHANGED is_blocked
       ELSE /\ pc' = "idle"
            /\ insp' = NoInspector
            /\ is_blocked' = IF out.raised = BlockingDeficiencyError THEN TRUE ELSE is_blocked
    /\ UNCHANGED <<qa_run_flag, auditCalls, given>>

\* A NoOpInspector that still reports: the method records the deficiency of
\* the ClaimInspector it stands for.
NoOpCallReporting(method, arg) ==
    /\ pc = "audit"
    /\ insp.kind = "noop"
    /\ Len(report) < MaxReport
    /\ report' = IF Violates(method, arg, insp.value)
                 THEN add_report_item(report, insp.error_level, DefaultMsg(method, insp), NoFrame)
                 ELSE report
    /\ last' = Call(method, arg, insp, NoExc, TRUE)
    /\ UNCHANGED <<qa_run_flag, is_blocked, pc, insp, run, auditCalls, given>>

\* NoOpInspector.__getattr__ then __call__: any method name, any arguments.
NoOpCall(method, arg) ==
    /\ pc = "audit"
    /\ insp.kind = "noop"
    /\ last' = Call(method, arg, insp, NoExc, TRUE)
    /\ UNCHANGED <<report, qa_run_flag, is_blocked, pc, insp, run, auditCalls, given>>

IsTruthy ==
    \/ Invoke("is_truthy", NoArg, is_truthy(insp, report, Below, PyNone))
    \/ NoOpCall("is_truthy", NoArg)

IsNone ==
    \/ Invoke("is_none", NoArg, is_none(insp, report, Below, PyNone))
    \/ NoOpCall("is_none", NoArg)

IsNotNone ==
    \/ Invoke("is_not_none", NoArg, is_not_none(insp, report, Below, PyNone))
    \/ NoOpCall("is_not_none", NoArg)

IsType(cls) ==
    \/ Invoke("is_type", cls, is_type(insp, report, Below, cls, PyNone))
    \/ NoOpCall("is_type", cls)

IsCallable ==
    \/ Invoke("is_callable", NoArg, is_callable(insp, report, Below, PyNone))
    \/ NoOpCall("is_callable", NoArg)

IsEqualTo(value) ==
    \/ Invoke("is_equal_to", value, is_equal_to(insp, report, Below, value, PyNone))
    \/ NoOpCall("is_equal_to", value)

IfNotNone ==
    \/ Invoke("if_not_none", NoArg, if_not_none(insp, report))
    \/ NoOpCall("if_not_none", NoArg)

IfIsType(cls) ==
    \/ Invoke("if_is_type", cls, if_is_type(insp, report, cls))
    \/ NoOpCall("if_is_type", cls)

Contains(value) ==
    \/ Invoke("contains", value, contains(insp, report, Below, value, PyNone))
    \/ NoOpCall("contains", value)

\* raises() is used on values that can be called.
Raises(exception_type, args) ==
    \/ /\ Callable(insp.value)
       /\ Invoke("raises", <<exception_type, args>>,
                 raises(insp, report, Below, exception_type, args, PyNone))
    \/ NoOpCall("raises", <<exception_type, args>>)

\* -------------------------------------------------------------- inputs
Messages == {<<"test message">>}
Frames == {NoFrame}
EqualTargets == {VFive}
ContainsTargets == {"'one'", "1"}
ExpectedKinds == {ValueError, Exception}
CallArgs == {"'1'", "'one'", "None"}
\* The severities claims are made at: the default, one below it and BLOCKER.
ClaimSeverities == {BLOCKER, ERROR, WARNING}
\* The severities added directly: BLOCKER and the two no claim is made at.
AddSeverities == {BLOCKER, CRITICAL, INFO}

Next ==
    \/ RunAudit
    \/ GetReport
    \/ AuditReturn
    \/ \E l \in Severity : Passed(l)
    \/ \E s \in AddSeverities, m \in Messages, f \in Frames : AddReportItem(s, m, f)
    \/ \E v \in Values, s \in ClaimSeverities : Claim(v, s)
    \/ IsTruthy
    \/ IsNone
    \/ IsNotNone
    \/ \E c \in Types : IsType(c)
    \/ IsCallable
    \/ \E x \in EqualTargets : IsEqualTo(x)
    \/ IfNotNone
    \/ \E c \in Types : IfIsType(c)
    \/ \E x \in ContainsTargets : Contains(x)
    \/ \E k \in ExpectedKinds, a \in CallArgs : Raises(k, a)

Spec == Init /\ [][Next]_vars

\* ------------------------------------------------- the auditor used directly
\* The tests use an auditor without running it: add_report_item(), claim()
\* and the inspectors are called by the test routine itself, pc = "idle".
AddMessages == {<<"test message">>, <<"test message2">>}
AddFrames == {NoFrame, Frame("main", <<"agent.add_report_item", "(", "severity", ",",
                                       " message", ",", " frame", ")">>)}

NextAdd ==
    \/ \E s \in Severity, m \in AddMessages, f \in AddFrames : AddReportItem(s, m, f)
    \/ \E l \in Severity : Passed(l)

\* ------------------------------------------------- claim() and source lines
\* The source lines a call of claim() is written on: `agent.claim(ARG` and what
\* follows the argument.  ARG is an expression: a name, a literal, a call.
Atoms ==
    {<<"self.value">>, <<"None">>,
     <<"\"", "b", "\"">>,
     <<"\"", "a", ",", "b", "\"">>,
     <<"'", "a", ",", "b", "'">>,
     <<"\"", "(", "\"">>,
     <<"\"", ")", "\"">>}

ArgTexts ==
    Atoms
    \cup {x \o <<"(", ")">> : x \in {<<"self.value">>}}
    \cup {<<"(">> \o x \o <<")">> : x \in Atoms}
    \cup {<<"f", "(">> \o x \o <<",", " ">> \o y \o <<")">> :
             x \in Atoms, y \in {<<"b">>, <<"'", "b", "'">>}}

\* What follows the first argument on the line.
Rests ==
    {<<")">>,
     <<")", ".is_none", "(", ")">>,
     <<",", " qassure.Severity.WARNING", ")">>,
     <<",">>}

\* A source line with the text of the first argument of its call: a call of
\* claim(), a call without argument, a call whose arguments start on the next
\* line, a line without a call.
SourceLines ==
    {[line |-> <<"inspector = agent.claim", "(">> \o a \o r, arg |-> Str(a)] :
        a \in ArgTexts, r \in Rests}
    \cup {[line |-> <<"auditor.run_audit", "(", ")">>, arg |-> Str(<<>>)],
          [line |-> <<"inspector = agent.claim", "(">>, arg |-> PyNone],
          [line |-> <<"value = 5">>, arg |-> PyNone]}

\* Auditor.claim, called by a routine of the caller's own (a test) on the
\* source line `src`.
ClaimFrom(value, severity, object_name, src) ==
    /\ pc = "idle"
    /\ insp' = claim(value, severity, object_name,
                     <<Frame("test_inspector_creation", src.line)>>)
    /\ last' = Call("claim", [value |-> value, severity |-> severity,
                              object_name |-> object_name, src |-> src],
                    NoInspector, NoExc, TRUE)
    /\ UNCHANGED <<report, qa_run_flag, is_blocked, pc, run, auditCalls, given>>

\* Auditor._parse_frame_line_for_arg, applied to a source line.
ParseLine(src) ==
    /\ pc = "idle"
    /\ last' = Call("_parse_frame_line_for_arg", src, NoInspector, NoExc,
                    _parse_frame_line_for_arg(src.line))
    /\ UNCHANGED <<report, qa_run_flag, is_blocked, pc, insp, run, auditCalls, given>>

\* The lines a call of claim() starts on.
ClaimLines == {src \in SourceLines : src.line[1] = "inspector = agent.claim"}

ObjectNames == {PyNone, Str(<<"abc">>)}
NamedValues == {VNone, VFive}
NamedSeverities == {BLOCKER, CRITICAL}

NextNames ==
    \E v \in NamedValues, s \in NamedSeverities, n \in ObjectNames, src \in ClaimLines :
        ClaimFrom(v, s, n, src)

\* claim() called by a test routine, on every line.
SpecNames == Init /\ [][NextNames]_vars

NextParse == \E src \in SourceLines : ParseLine(src)

\* The extractor applied to every line.
SpecParse == Init /\ [][NextParse]_vars

\* --------------------------------------------------- the AuditReport itself
\* A user of the report object appends to it and reads it back.
ReportAppend(severity, message, source) ==
    /\ pc = "idle"
    /\ Len(report) < MaxReport
    /\ report' = append(report, severity, message, source)
    /\ given' = Append(given, <<severity, message, source>>)
    /\ last' = Call("append", <<severity, message, source>>, NoInspector, NoExc, TRUE)
    /\ UNCHANGED <<qa_run_flag, is_blocked, pc, insp, run, auditCalls>>

ReportLen ==
    /\ pc = "idle"
    /\ last' = Call("__len__", NoArg, NoInspector, NoExc, __len__(report))
    /\ UNCHANGED <<report, qa_run_flag, is_blocked, pc, insp, run, auditCalls, given>>

ReportGetItem(k) ==
    /\ pc = "idle"
    /\ last' = IF InRange(report, k)
               THEN Call("__getitem__", k, NoInspector, NoExc, __getitem__(report, k))
               ELSE Call("__getitem__", k, NoInspector, IndexError, NoArg)
    /\ UNCHANGED <<report, qa_run_flag, is_blocked, pc, insp, run, auditCalls, given>>

ReportIter ==
    /\ pc = "idle"
    /\ last' = Call("__iter__", NoArg, NoInspector, NoExc, __iter__(report))
    /\ UNCHANGED <<report, qa_run_flag, is_blocked, pc, insp, run, auditCalls, given>>

ReportSources == {<<"Unknown">>, <<"data.csv">>}

NextReport ==
    \/ \E s \in Severity, m \in AddMessages, src \in ReportSources : ReportAppend(s, m, src)
    \/ ReportLen
    \/ \E k \in -1..MaxReport : ReportGetItem(k)
    \/ ReportIter

SpecReport == Init /\ [][NextReport]_vars

\* ------------------------------------------- every operation on one auditor
\* The auditor of Spec whose report is also read by its caller: len(report),
\* report[k] and iteration, between the calls of the auditor's methods.
NextOps ==
    \/ Next
    \/ ReportLen
    \/ \E k \in -1..MaxReport : ReportGetItem(k)
    \/ ReportIter

SpecOps == Init /\ [][NextOps]_vars

\* ------------------------------------------------ inspectors used directly
\* A method of the ClaimInspector is called by the routine that holds the
\* inspector, outside run_audit(), with the message `msg`: an exception that
\* leaves the method reaches that routine, nothing sets is_blocked.
InvokeDirect(method, arg, msg, out) ==
    /\ pc = "idle"
    /\ insp.kind = "claim"
    /\ Len(out.report) <= MaxReport
    /\ report' = out.report
    /\ last' = [Call(method, arg, insp, out.raised, TRUE) EXCEPT !.msg = msg]
    /\ UNCHANGED <<qa_run_flag, is_blocked, pc, insp, run, auditCalls, given>>

DirectIsTruthy(msg) == InvokeDirect("is_truthy", NoArg, msg, is_truthy(insp, report, Below, msg))

DirectIsNone(msg) == InvokeDirect("is_none", NoArg, msg, is_none(insp, report, Below, msg))

DirectIsNotNone(msg) ==
    InvokeDirect("is_not_none", NoArg, msg, is_not_none(insp, report, Below, msg))

DirectIsType(cls, msg) == InvokeDirect("is_type", cls, msg, is_type(insp, report, Below, cls, msg))

DirectIsCallable(msg) ==
    InvokeDirect("is_callable", NoArg, msg, is_callable(insp, report, Below, msg))

DirectIsEqualTo(value, msg) ==
    InvokeDirect("is_equal_to", value, msg, is_equal_to(insp, report, Below, value, msg))

DirectContains(value, msg) ==
    InvokeDirect("contains", value, msg, contains(insp, report, Below, value, msg))

\* raises() is used on values that can be called.
DirectRaises(exception_type, args, msg) ==
    /\ Callable(insp.value)
    /\ InvokeDirect("raises", <<exception_type, args>>, msg,
                    raises(insp, report, Below, exception_type, args, msg))

\* The message a test passes: none, the empty string, a text.
DirectMessages == {PyNone, Str(<<>>), Str(<<"test message">>)}
DirectValues == {VNone, VFive, VDict, VInt}
DirectSeverities == {BLOCKER, ERROR}
DirectLine == [line |-> <<"inspector = agent.claim", "(", "self.value", ")">>,
               arg |-> Str(<<"self.value">>)]
DirectCallArgs == {"'1'", "'one'"}

NextDirect ==
    \/ \E v \in DirectValues, s \in DirectSeverities : ClaimFrom(v, s, PyNone, DirectLine)
    \/ \E m \in DirectMessages : DirectIsTruthy(m)
    \/ \E m \in DirectMessages : DirectIsNone(m)
    \/ \E m \in DirectMessages : DirectIsNotNone(m)
    \/ \E m \in DirectMessages : DirectIsType("int", m)
    \/ \E m \in DirectMessages : DirectIsCallable(m)
    \/ \E x \in EqualTargets, m \in DirectMessages : DirectIsEqualTo(x, m)
    \/ \E x \in ContainsTargets, m \in DirectMessages : DirectContains(x, m)
    \/ \E k \in ExpectedKinds, a \in DirectCallArgs, m \in DirectMessages : DirectRaises(k, a, m)

SpecDirect == Init /\ [][NextDirect]_vars

\* ------------------------------------------------- claims about every value
\* The tests claim a value and call one predicate on the inspector, value
\* after value: the falsy values, the containers and the rest.
TestValues == Values \cup {VEmptyStr, VFalse, VEmptyDict, VList, VNums, VEmptyList}
ValueSeverities == {BLOCKER, WARNING}
MemberTargets == {"'one'", "1", "2"}

NextValues ==
    \/ \E v \in TestValues, s \in ValueSeverities : ClaimFrom(v, s, PyNone, DirectLine)
    \/ DirectIsTruthy(PyNone)
    \/ DirectIsNone(PyNone)
    \/ DirectIsNotNone(PyNone)
    \/ \E x \in MemberTargets : DirectContains(x, PyNone)

SpecValues == Init /\ [][NextValues]_vars

\* add_report_item() and passed() on an auditor that is never run.
SpecAdd == Init /\ [][NextAdd]_vars

\* ================================================================== claims
Predicates == {"is_truthy", "is_none", "is_not_none", "is_type", "is_callable",
               "is_equal_to", "contains", "raises"}
Combinators == {"if_not_none", "if_is_type"}
Methods == Predicates \cup Combinators

\* The claim made by the last call holds of the value it was made about.
Holds(c) ==
    /\ c.op \in Predicates
    /\ ~Violates(c.op, c.arg, c.self.value)
    /\ c.op = "contains" => Member(c.self.value, c.arg) = "True"

\* The last call was a method of a ClaimInspector / of a NoOpInspector.
OnClaimInspector == last.op \in Methods /\ last.self.kind = "claim"
OnNoOpInspector == last.op \in Methods /\ last.self.kind = "noop"

\* run_audit() is over: it returned, or an exception left it.
RunOver == pc = "idle" /\ run.status \in {"completed", "blocked", "error"}

\* The severities of the records the current (or last) run appended.
RunSeverities == [i \in 1..(run.stop - run.start) |-> report[run.start + i].severity]

HasBlocker(sevs) == \E i \in 1..Len(sevs) : sevs[i] = BLOCKER

\* sevs up to and including its first BLOCKER (all of it when it has none).
RECURSIVE UpToBlocker(_)
UpToBlocker(sevs) ==
    IF sevs = <<>> THEN <<>>
    ELSE IF Head(sevs) = BLOCKER THEN <<BLOCKER>>
    ELSE <<Head(sevs)>> \o UpToBlocker(Tail(sevs))

\* The largest severity rank in the report, 0 for the empty report.
RECURSIVE MaxRank(_)
MaxRank(rep) ==
    IF rep = <<>> THEN 0
    ELSE LET m == MaxRank(Tail(rep))
         IN  IF Head(rep).severity > m THEN Head(rep).severity ELSE m

\* C1: run_audit() and get_report() are idempotent: audit() is executed exactly
\* once, by the first call, so no later call re-evaluates a claim or changes
\* the length of the report.  (Within run_audit() only audit() appends.)
C1_AuditExecutedOnce == auditCalls <= 1

\* run_audit() has returned to its caller.
RunReturned == pc = "idle" /\ run.status \in {"completed", "blocked"}

\* C2: in one execution of audit(), once a claim has failed at severity BLOCKER
\* no later claim is evaluated and, when run_audit() returns, is_blocked is
\* true and the run has appended one record per failed claim, the blocking
\* one last, the earlier ones kept.
C2_BlockerAbortsRun ==
    HasBlocker(run.violated) =>
        /\ ~run.afterBlock
        /\ RunReturned => /\ is_blocked
                          /\ RunSeverities = run.violated
                          /\ run.violated[Len(run.violated)] = BLOCKER

\* C3: when run_audit() is over and no claim of the run failed at BLOCKER, then
\* audit() ran to its end, run_audit() returned without setting is_blocked,
\* and the run appended exactly one record per failed claim, in evaluation
\* order.  (A run ended by contains() on a value without membership test is a
\* usage error and left aside.)
UsageError == run.status = "error" /\ run.by = "contains"

C3_NonBlockerRunCompletes ==
    (RunOver /\ ~HasBlocker(run.violated) /\ ~UsageError) =>
        /\ run.status = "completed"
        /\ is_blocked = run.blocked
        /\ RunSeverities = run.violated

\* C4: passed() makes sure the audit has run: once passed() has been called,
\* audit() has been executed.
C4_PassedRunsAudit == last.op = "passed" => auditCalls >= 1

\* C5: passed(L) is true iff the largest severity rank in the report is at most
\* L's rank; a record exactly at L passes and the empty report passes at every
\* level.
C5_PassedIffMaxRankAtMost ==
    last.op = "passed" => (last.result <=> MaxRank(report) <= last.arg)

\* C5 witness: passed(L) answered true on a report whose largest rank is L.
C5_Witness ==
    /\ last.op = "passed"
    /\ report # <<>>
    /\ MaxRank(report) = last.arg
    /\ last.result

\* C6: whenever a method of a BLOCKER-severity ClaimInspector records a
\* deficiency, the fatal signal leaves the method and the rest of the run is
\* aborted.
C6_FatalSignalLeavesMethod ==
    (OnClaimInspector /\ last.self.error_level = BLOCKER /\ Len(report) > Len(last.pre)) =>
        /\ last.raised = BlockingDeficiencyError
        /\ run.status = "blocked"
        /\ pc = "idle"

\* C7: when a BLOCKER claim has failed in audit(), the fatal signal does not
\* leave run_audit() / get_report(), and when they return the run has appended
\* exactly the deficiencies of the failed claims up to and including the
\* blocking one.
C7_BlockedRunReturnsPartialReport ==
    HasBlocker(run.violated) =>
        /\ run.exc # BlockingDeficiencyError
        /\ RunReturned => RunSeverities = UpToBlocker(run.violated)

\* C8: a method called on the NoOpInspector that if_not_none() / if_is_type()
\* returned records nothing, raises nothing and leaves the report, is_blocked
\* and the run as they were, whatever it would report on a ClaimInspector.
C8_NoOpInspectorHasNoEffect ==
    OnNoOpInspector =>
        /\ report = last.pre
        /\ is_blocked = last.blocked
        /\ last.raised = NoExc
        /\ pc = "audit"
        /\ run.status = "running"

\* C8 witness: a predicate at severity BLOCKER whose claim is false was called
\* on the NoOpInspector.
C8_Witness ==
    /\ OnNoOpInspector
    /\ last.self.error_level = BLOCKER
    /\ Violates(last.op, last.arg, last.self.value)

\* C9: raises(ErrorKind, args) records exactly one deficiency when the call
\* does not raise and when it raises an error that does not match ErrorKind,
\* which is then not propagated; a matching error is swallowed and nothing is
\* recorded.
C9_RaisesRecordsNonMatching ==
    (OnClaimInspector /\ last.op = "raises") =>
        LET call == CallResult(last.self.value, last.arg[2])
            matching == call # "returns" /\ IsSubclass(call, last.arg[1])
        IN  IF matching
            THEN report = last.pre /\ last.raised = NoExc
            ELSE /\ Len(report) = Len(last.pre) + 1
                 /\ call # "returns" => last.raised = NoExc

\* C10: a predicate whose claim holds has no effect at any severity: it
\* appends nothing, raises nothing, does not set is_blocked and audit() goes
\* on; a run whose claims all hold appends nothing and does not set is_blocked.
C10_PassingClaimHasNoEffect ==
    /\ (OnClaimInspector /\ Holds(last)) =>
            /\ report = last.pre
            /\ is_blocked = last.blocked
            /\ last.raised = NoExc
            /\ pc = "audit"
            /\ run.status = "running"
    /\ (RunOver /\ run.status = "completed" /\ run.violated = <<>>) =>
            /\ run.stop = run.start
            /\ is_blocked = run.blocked

\* C10 witness: a predicate at severity BLOCKER whose claim holds was called on
\* a ClaimInspector.
C10_Witness ==
    /\ OnClaimInspector
    /\ Holds(last)
    /\ last.self.error_level = BLOCKER

\* C11: an error other than the fatal signal that audit() raises goes on to the
\* caller of run_audit() / get_report(): contains() on a value without
\* membership test raises TypeError, and when such an error has left a method
\* the run is over with that error, nothing was recorded for it, is_blocked
\* is as it was and the records appended before are still in the report.
C11_OtherErrorsPropagate ==
    /\ (OnClaimInspector /\ last.op = "contains"
            /\ Member(last.self.value, last.arg) = TypeError) => last.raised = TypeError
    /\ (OnClaimInspector /\ last.raised \notin {NoExc, BlockingDeficiencyError}) =>
            /\ pc = "idle"
            /\ run.status = "error"
            /\ run.exc = last.raised
            /\ report = last.pre
            /\ is_blocked = last.blocked

\* C11 witness: contains() raised TypeError in a run that had already appended
\* a record.
C11_Witness ==
    /\ OnClaimInspector
    /\ last.op = "contains"
    /\ last.raised = TypeError
    /\ run.status = "error"
    /\ Len(report) > run.start
    /\ ~is_blocked

\* C12: add_report_item(severity, message, context) appends exactly one record
\* (severity, message, source) at the end of the report, with source "Unknown"
\* when no context is given, and does nothing else: at every severity it
\* returns normally and leaves is_blocked, the run-once flag and the earlier
\* records as they were.
C12_AddReportItemAppendsOne ==
    last.op = "add_report_item" =>
        /\ Len(report) = Len(last.pre) + 1
        /\ SubSeq(report, 1, Len(last.pre)) = last.pre
        /\ report[Len(report)].severity = last.arg[1]
        /\ report[Len(report)].message = last.arg[2]
        /\ last.arg[3] = NoFrame => report[Len(report)].source = <<"Unknown">>
        /\ last.raised = NoExc
        /\ is_blocked = last.blocked
        /\ ~qa_run_flag
        /\ pc = "idle"

\* C12 witness: a BLOCKER item was added without context to a report that
\* already held a record.
C12_Witness ==
    /\ last.op = "add_report_item"
    /\ last.arg[1] = BLOCKER
    /\ last.arg[3] = NoFrame
    /\ Len(last.pre) >= 1
    /\ Len(report) = Len(last.pre) + 1

\* The tuple a report item is.
Triple(item) == <<item.severity, item.message, item.source>>

\* C13: after N triples (severity, message, source) were appended to an empty
\* report, len() is N, index i (0 <= i < N) gives the i-th triple appended and
\* iteration gives exactly the N triples, in the order appended, fields
\* unchanged.
C13_ReportRoundTrip ==
    /\ Len(report) = Len(given)
    /\ last.op = "__len__" => last.result = Len(given)
    /\ (last.op = "__getitem__" /\ last.arg >= 0 /\ last.arg < Len(given)) =>
            /\ last.raised = NoExc
            /\ Triple(last.result) = given[last.arg + 1]
    /\ last.op = "__iter__" =>
            /\ Len(last.result) = Len(given)
            /\ \A i \in 1..Len(given) : Triple(last.result[i]) = given[i]

\* C13 witness: a report of two different triples was iterated.
C13_Witness ==
    /\ last.op = "__iter__"
    /\ Len(given) >= 2
    /\ given[1] # given[2]
    /\ Len(last.result) = Len(given)

\* The display name the claims give a source line whose first argument has
\* the text `arg`: "[ARG]", the generic name when there is no such text.
NameOf(arg) == IF Falsy(arg) THEN ProvidedValue ELSE <<"[">> \o arg[2] \o <<"]">>

\* C14: claim(value, severity, objectName) returns an inspector bound to that
\* value and severity; its display name is objectName when given, "[ARG]"
\* when objectName is omitted and ARG is the text of the first argument on the
\* calling line, and "[provided value]" when no such text can be recovered.
C14_ClaimBindsAndNames ==
    (last.op = "claim" /\ pc = "idle") =>
        /\ insp.kind = "claim"
        /\ insp.value = last.arg.value
        /\ insp.error_level = last.arg.severity
        /\ insp.object_name = IF last.arg.object_name # PyNone
                              THEN last.arg.object_name[2]
                              ELSE NameOf(last.arg.src.arg)

\* C15: the display name is inferred from the frame of the routine that
\* contains the claim(...) call, also when that routine is audit() reached
\* through run_audit() / get_report(): `self.claim(self.value)` written in
\* audit() gets the name "[self.value]".
C15_NameFromCallingFrame ==
    (last.op = "claim" /\ pc = "audit") =>
        /\ Below[1].name = "audit"
        /\ insp.object_name = NameOf(_parse_frame_line_for_arg(Below[1].line))
        /\ insp.object_name = <<"[", "self.value", "]">>

\* C16: applied to a source line with a call, the extractor returns exactly
\* the text of the first argument of the call, whatever parentheses, commas
\* in string literals or nested calls that text holds, and nothing when the
\* line has no single argument to extract.
C16_ExtractsFirstArgument ==
    last.op = "_parse_frame_line_for_arg" =>
        IF Falsy(last.arg.arg) THEN Falsy(last.result) ELSE last.result = last.arg.arg

\* C17: a predicate of a ClaimInspector whose severity is not BLOCKER returns
\* the same inspector whether its claim holds or not, so the chain goes on
\* against the same value, and it appends one record, at the inspector's
\* severity, exactly when its claim is false.  (contains() on a value without
\* membership test is a usage error and left aside.)
C17_PredicateReturnsSelfAndRecords ==
    (/\ OnClaimInspector
     /\ last.op \in Predicates
     /\ last.self.error_level # BLOCKER
     /\ ~(last.op = "contains" /\ Member(last.self.value, last.arg) = TypeError)) =>
        /\ last.raised = NoExc
        /\ pc = "audit"
        /\ insp = last.self
        /\ IF Violates(last.op, last.arg, last.self.value)
           THEN /\ Len(report) = Len(last.pre) + 1
                /\ SubSeq(report, 1, Len(last.pre)) = last.pre
                /\ report[Len(report)].severity = last.self.error_level
           ELSE report = last.pre

\* The last call was a predicate of a ClaimInspector held by the caller,
\* outside run_audit().
DirectPredicate == OnClaimInspector /\ last.op \in Predicates /\ pc = "idle"

\* C18: when a predicate is violated, the message of the record made is the
\* message the caller supplied, whatever string it is (the empty one
\* included), and the default naming the display name only when the caller
\* supplied none.
C18_RecordsSuppliedMessage ==
    (/\ DirectPredicate
     /\ Violates(last.op, last.arg, last.self.value)
     /\ Len(report) > Len(last.pre)) =>
        report[Len(report)].message =
            IF last.msg = PyNone THEN DefaultMsg(last.op, last.self) ELSE last.msg[2]

\* C19: if_not_none() on a value that is not None and if_is_type(T) on an
\* instance of T return the very inspector they were called on and record
\* nothing, so the chain goes on from the state it was in: same inspector,
\* same report, same is_blocked, audit() still running.
C19_PassingCombinatorReturnsSelf ==
    (/\ OnClaimInspector
     /\ \/ last.op = "if_not_none" /\ last.self.value # VNone
        \/ last.op = "if_is_type" /\ IsInstance(last.self.value, last.arg)) =>
        /\ insp = last.self
        /\ report = last.pre
        /\ is_blocked = last.blocked
        /\ last.raised = NoExc
        /\ pc = "audit"
        /\ run.status = "running"

\* C19 witness: if_is_type(T) was called on a BLOCKER inspector whose value is
\* an instance of T, in a run that had already appended a record.
C19_Witness ==
    /\ OnClaimInspector
    /\ last.op = "if_is_type"
    /\ IsInstance(last.self.value, last.arg)
    /\ last.self.error_level = BLOCKER
    /\ insp = last.self
    /\ Len(report) > run.start

\* C20: a violated predicate called on a BLOCKER inspector outside run_audit()
\* appends its record and then raises the fatal signal, which reaches the
\* direct caller: the record is in the report, is_blocked is still false, and
\* whatever an inspector records afterwards is appended after the records
\* already there.  (contains() on a value without membership test is a usage
\* error and left aside.)
C20_DirectBlockerRecordsThenRaises ==
    /\ (/\ DirectPredicate
        /\ last.self.error_level = BLOCKER
        /\ Violates(last.op, last.arg, last.self.value)) =>
            /\ Len(report) = Len(last.pre) + 1
            /\ report[Len(report)].severity = BLOCKER
            /\ last.raised = BlockingDeficiencyError
            /\ ~is_blocked
    /\ DirectPredicate => /\ Len(report) >= Len(last.pre)
                          /\ SubSeq(report, 1, Len(last.pre)) = last.pre

\* before is a prefix of after.
IsPrefix(before, after) ==
    /\ Len(before) <= Len(after)
    /\ SubSeq(after, 1, Len(before)) = before

\* C21: the report is append-only: whatever operation is carried out (claim, a
\* predicate or combinator on either inspector, add_report_item, run_audit,
\* get_report, passed, len, indexing, iteration), the report before it is a
\* prefix of the report after it: no record is removed, moved or changed.
C21_ReportAppendOnly == [][IsPrefix(report, report')]_vars

\* C21 witness: in a second execution of audit() a predicate appended a record
\* after the records the report held already.
C21_Witness ==
    /\ OnClaimInspector
    /\ auditCalls = 2
    /\ Len(last.pre) >= 1
    /\ Len(report) = Len(last.pre) + 1
    /\ IsPrefix(last.pre, report)

\* The keys of a mapping, the elements of a list.
Keys(v) == {it[1] : it \in Items(v)}
ElementSet(v) == {Elements(v)[i] : i \in 1..Len(Elements(v))}

\* The last call appended one record / none.
Recorded == Len(report) = Len(last.pre) + 1 /\ IsPrefix(last.pre, report)
NotRecorded == report = last.pre

\* C22: contains(x) on a container records a deficiency iff x is not a member
\* of it: a key of the mapping (not one of its values), an element of the
\* sequence.  {"one": 1} passes for "one" and fails for 1; an empty container
\* fails for every target.
C22_ContainsRecordsIffNotMember ==
    (DirectPredicate /\ last.op = "contains" /\ last.self.value \in Mappings \cup Lists) =>
        LET v == last.self.value
            x == last.arg
            member == IF v \in Mappings THEN x \in Keys(v) ELSE x \in ElementSet(v)
        IN  /\ IF member THEN NotRecorded ELSE Recorded
            /\ (v = VDict /\ x = "'one'") => NotRecorded
            /\ (v = VDict /\ x = "1") => Recorded
            /\ v \in {VEmptyDict, VEmptyList} => Recorded

\* C22 witness: contains(1) on {"one": 1} recorded a deficiency.
C22_Witness ==
    /\ DirectPredicate
    /\ last.op = "contains"
    /\ last.self.value = VDict
    /\ last.arg = "1"
    /\ Recorded

\* The values that are falsy without being None.
FalsyNotNone == {VZero, VEmptyStr, VFalse}

\* C23: is_none() and is_not_none() are exact complements decided by identity
\* with None, not by truthiness: is_none() records a deficiency for every
\* value but None, is_not_none() for None alone, so for every value exactly
\* one of the two records; 0, "" and False fail is_none() and pass
\* is_not_none() although they fail is_truthy().
C23_NoneTestsAreComplements ==
    /\ (DirectPredicate /\ last.op = "is_none") =>
            IF last.self.value = VNone THEN NotRecorded ELSE Recorded
    /\ (DirectPredicate /\ last.op = "is_not_none") =>
            IF last.self.value = VNone THEN Recorded ELSE NotRecorded
    /\ (DirectPredicate /\ last.op = "is_truthy" /\ last.self.value \in FalsyNotNone) =>
            Recorded
    /\ insp.kind = "claim" =>
            ~(is_none(insp, report, Below, PyNone).report # report
                <=> is_not_none(insp, report, Below, PyNone).report # report)

\* C23 witness: is_none() recorded a deficiency for a falsy value that is not
\* None.
C23_Witness ==
    /\ DirectPredicate
    /\ last.op = "is_none"
    /\ last.self.value \in FalsyNotNone
    /\ Recorded

\* C24: on an auditor whose audit() makes its claims through the auditor's own
\* inspectors, is_blocked implies that the report holds a record of severity
\* BLOCKER; is_blocked is never reset, and it is set only where run_audit()
\* catches the fatal signal that a method of a ClaimInspector raised in audit().
C24_BlockedImpliesBlockerRecord ==
    /\ is_blocked => HasBlocker([i \in 1..Len(report) |-> report[i].severity])
    /\ last.blocked => is_blocked
    /\ (is_blocked /\ ~last.blocked) =>
            /\ OnClaimInspector
            /\ last.raised = BlockingDeficiencyError
            /\ run.status = "blocked"
            /\ pc = "idle"

\* C24 witness: audit() was executed again after a blocked run and returned
\* normally; is_blocked is still true and the BLOCKER record still there.
C24_Witness ==
    /\ is_blocked
    /\ auditCalls = 2
    /\ run.status = "completed"
    /\ run.blocked
    /\ HasBlocker([i \in 1..Len(report) |-> report[i].severity])

\* C25: passed(BLOCKER) is true in every reachable state, also after a blocked
\* run whose report holds BLOCKER records, and passed is monotone in its
\* level: passed(L) and rank(L) <= rank(L') imply passed(L').
C25_PassedAtBlockerAlwaysTrue ==
    /\ passed(report, BLOCKER)
    /\ (last.op = "passed" /\ last.arg = BLOCKER) => last.result
    /\ \A l1, l2 \in Severity : (passed(report, l1) /\ l1 <= l2) => passed(report, l2)

\* C25 witness: passed(BLOCKER) answered true after a blocked run, on a report
\* that holds a BLOCKER record.
C25_Witness ==
    /\ last.op = "passed"
    /\ last.arg = BLOCKER
    /\ last.result
    /\ is_blocked
    /\ run.status = "blocked"
    /\ HasBlocker([i \in 1..Len(report) |-> report[i].severity])

====
